---- MODULE Spec2Model ----
(***************************************************************************)
(* ClassificationQualityMetric and ClassificationDummyMetric of evidently  *)
(* (metrics/classification_performance) as a state machine.                *)
(*                                                                         *)
(* Floating point numbers are modelled as exact rationals n/d; a float     *)
(* that may be None is a record [k, n, d] with k one of "none", "num",     *)
(* "nan", "inf", "opaque".  Thresholds and probabilities are tenths.       *)
(***************************************************************************)
EXTENDS Integers, Sequences, FiniteSets, TLC

\* ------------------------------------------------------------------ bounds
MaxRows == 2
MaxRefRows == 1
MaxCalls == 2

\* ------------------------------------------------------------ float values
RECURSIVE GCD(_, _)
GCD(a, b) == IF b = 0 THEN a ELSE GCD(b, a % b)

Abs(x) == IF x < 0 THEN -x ELSE x

None == [k |-> "none", n |-> 0, d |-> 1]
NaN == [k |-> "nan", n |-> 0, d |-> 1]
Inf == [k |-> "inf", n |-> 0, d |-> 1]
Opaque == [k |-> "opaque", n |-> 0, d |-> 1]

Num(n, d) ==
    LET g == GCD(Abs(n), Abs(d))
        s == IF d < 0 THEN -1 ELSE 1
    IN  [k |-> "num", n |-> (s * n) \div g, d |-> (s * d) \div g]

IsNum(a) == a.k = "num"
Zero == Num(0, 1)
One == Num(1, 1)
Half == Num(1, 2)
Two == Num(2, 1)
Tenth(t) == Num(t, 10)

Mul(a, b) == IF IsNum(a) /\ IsNum(b) THEN Num(a.n * b.n, a.d * b.d) ELSE NaN
Add(a, b) == IF IsNum(a) /\ IsNum(b) THEN Num(a.n * b.d + b.n * a.d, a.d * b.d) ELSE NaN
Sub(a, b) == IF IsNum(a) /\ IsNum(b) THEN Num(a.n * b.d - b.n * a.d, a.d * b.d) ELSE NaN
\* a / b on numpy floats: 0/0 is nan, x/0 is inf (a warning, no exception)
Div(a, b) ==
    IF ~(IsNum(a) /\ IsNum(b)) THEN NaN
    ELSE IF b.n = 0 THEN (IF a.n = 0 THEN NaN ELSE Inf)
    ELSE Num(a.n * b.d, a.d * b.n)
Less(a, b) == IsNum(a) /\ IsNum(b) /\ a.n * b.d < b.n * a.d
\* Python's min(a, b): b if b < a else a
Min(a, b) == IF Less(b, a) THEN b ELSE a
IsZero(a) == IsNum(a) /\ a.n = 0

\* ------------------------------------------------------- sequence helpers
Range(s) == {s[i] : i \in DOMAIN s}
Count(s, x) == Cardinality({i \in DOMAIN s : s[i] = x})
RECURSIVE SumSeq(_)
SumSeq(s) == IF s = <<>> THEN Zero ELSE Add(Head(s), SumSeq(Tail(s)))
Mean(s) == Div(SumSeq(s), Num(Len(s), 1))
RECURSIVE SortedSeq(_)
SortedSeq(S) ==
    IF S = {} THEN <<>>
    ELSE LET m == CHOOSE x \in S : \A y \in S : x <= y
         IN  <<m>> \o SortedSeq(S \ {m})
\* pandas Series.unique(): the distinct values in order of first appearance
RECURSIVE Unique(_)
Unique(s) ==
    IF s = <<>> THEN <<>>
    ELSE LET r == Unique(SubSeq(s, 1, Len(s) - 1))
             x == s[Len(s)]
         IN  IF x \in Range(r) THEN r ELSE Append(r, x)
\* str(label)
ToStr(l) == CASE l = 0 -> "0" [] l = 1 -> "1" [] l = 2 -> "2" [] l = 3 -> "3" [] OTHER -> "?"

\* ---------------------------------------------------- sklearn.metrics calls
TP(target, preds, pos) == Cardinality({i \in DOMAIN target : target[i] = pos /\ preds[i] = pos})
FP(target, preds, pos) == Cardinality({i \in DOMAIN target : target[i] # pos /\ preds[i] = pos})
FN(target, preds, pos) == Cardinality({i \in DOMAIN target : target[i] = pos /\ preds[i] # pos})
TN(target, preds, pos) == Cardinality({i \in DOMAIN target : target[i] # pos /\ preds[i] # pos})

\* zero_division="warn": an empty denominator gives 0.0
Ratio(n, d) == IF d = 0 THEN Zero ELSE Num(n, d)

precision_score(target, preds, pos) ==
    Ratio(TP(target, preds, pos), TP(target, preds, pos) + FP(target, preds, pos))
recall_score(target, preds, pos) ==
    Ratio(TP(target, preds, pos), TP(target, preds, pos) + FN(target, preds, pos))
f1_score(target, preds, pos) ==
    Ratio(2 * TP(target, preds, pos),
          2 * TP(target, preds, pos) + FP(target, preds, pos) + FN(target, preds, pos))
accuracy_score(target, preds) ==
    Ratio(Cardinality({i \in DOMAIN target : target[i] = preds[i]}), Len(target))

\* the labels sklearn averages over: those present in y_true or y_pred, sorted
PresentLabels(target, preds) == SortedSeq(Range(target) \cup Range(preds))
Score(kind, target, preds, pos) ==
    CASE kind = "precision" -> precision_score(target, preds, pos)
      [] kind = "recall" -> recall_score(target, preds, pos)
      [] OTHER -> f1_score(target, preds, pos)
\* average="macro"
MacroAvg(kind, target, preds) ==
    LET ls == PresentLabels(target, preds)
    IN  Mean([i \in DOMAIN ls |-> Score(kind, target, preds, ls[i])])
\* the "weighted avg" row of the report
WeightedAvg(kind, target, preds) ==
    LET ls == PresentLabels(target, preds)
    IN  Div(SumSeq([i \in DOMAIN ls |->
                Mul(Score(kind, target, preds, ls[i]), Num(Count(target, ls[i]), 1))]),
            Num(Len(target), 1))

ReportEntry(p, r, f, s) == [precision |-> p, recall |-> r, f1_score |-> f, support |-> s]
\* classification_report(target, preds, output_dict=True)
classification_report(target, preds) ==
    LET ls == PresentLabels(target, preds)
        keys == {ToStr(l) : l \in Range(ls)} \cup {"accuracy", "macro avg", "weighted avg"}
        perLabel(l) == ReportEntry(precision_score(target, preds, l),
                                   recall_score(target, preds, l),
                                   f1_score(target, preds, l),
                                   Count(target, l))
    IN  [key \in keys |->
            CASE key = "accuracy" ->
                    [value |-> accuracy_score(target, preds)]
              [] key = "macro avg" ->
                    ReportEntry(MacroAvg("precision", target, preds),
                                MacroAvg("recall", target, preds),
                                MacroAvg("f1", target, preds), Len(target))
              [] key = "weighted avg" ->
                    ReportEntry(WeightedAvg("precision", target, preds),
                                WeightedAvg("recall", target, preds),
                                WeightedAvg("f1", target, preds), Len(target))
              [] OTHER ->
                    perLabel(CHOOSE l \in Range(ls) : ToStr(l) = key)]

\* log_loss(one-hot matrix, uniform matrix with 1/ncols in every cell):
\* -(1/rows) * sum over the ones of ln(1/ncols) = (ones/rows) * ln(ncols)
NoLogLoss == [k |-> "none", ones |-> 0, rows |-> 1, classes |-> 1]
OpaqueLogLoss == [k |-> "opaque", ones |-> 0, rows |-> 1, classes |-> 1]
log_loss(onehot, ncols) ==
    [k |-> "uniform",
     ones |-> Cardinality({<<i, j>> \in (DOMAIN onehot) \X (1..ncols) :
                              j \in DOMAIN onehot[i] /\ onehot[i][j] = 1}),
     rows |-> Len(onehot),
     classes |-> ncols]

\* ------------------------------------------------------------- input data
\* A dataset row: the target value, the model's predicted label (prediction
\* column of labels) and the model's class probabilities (probability columns).
LabelUniverse == 0 .. 2
ProbaLevels == {2, 7}
ThresholdOptions == {0, 5, 7, 10}
KOptions == {1}
OtherRngStates == {6, 11}

Row(t, p, pr) == [target |-> t, pred |-> p, proba |-> pr]
\* the probability rows of a dataset with ncols probability columns
ProbaRows(ncols) ==
    IF ncols = 2 THEN {<<l, 10 - l>> : l \in ProbaLevels}
    ELSE {<<l, (10 - l) \div 2, 10 - l - ((10 - l) \div 2)>> : l \in ProbaLevels}
\* the rows a dataset may hold, by kind of prediction column: any label as
\* target without a prediction column, two labels with label predictions, the
\* first and the last label of the mapping with probabilities
Rows(hasTarget, kind, labels) ==
    LET targets == IF ~hasTarget THEN {0}
                   ELSE CASE kind = "none" -> LabelUniverse
                          [] kind = "labels" -> {0, 1}
                          [] OTHER -> {labels[1], labels[Len(labels)]}
    IN  CASE kind = "none" -> {Row(t, 0, <<>>) : t \in targets}
          [] kind = "labels" -> {Row(t, p, <<>>) : t \in targets, p \in {0, 1}}
          [] OTHER -> {Row(t, 0, pr) : t \in targets, pr \in ProbaRows(Len(labels))}
\* the rows of the reference dataset: its predictions are one fixed label and
\* one fixed probability level
ReferenceRows(hasTarget, kind, labels) ==
    {r \in Rows(hasTarget, kind, labels) :
        /\ kind = "labels" => r.pred = 1
        /\ kind = "probas" => r.proba[1] = 7}
SeqsUpTo(S, n) == UNION {[1 .. m -> S] : m \in 1 .. n}
Column(rows, f) == [i \in DOMAIN rows |-> rows[i][f]]
TargetOf(rows) == [i \in DOMAIN rows |-> rows[i].target]

NoK == [none |-> TRUE, v |-> 0]
SomeK(v) == [none |-> FALSE, v |-> v]

\* column_mapping.pos_label (its default)
PosLabel == 1

\* ----------------------------------- evidently.calculations (not in src/)
NoProbas == [none |-> TRUE, rows |-> <<>>]
Probas(rows) == [none |-> FALSE, rows |-> rows]
PredictionData(predictions, probas, labels) ==
    [predictions |-> predictions, prediction_probas |-> probas, labels |-> labels]
\* prediction_probas.shape
Shape(probas) == <<Len(probas.rows), Len(probas.rows[1])>>

\* the values of a sequence in descending order
RECURSIVE SortDesc(_)
SortDesc(s) ==
    IF s = <<>> THEN <<>>
    ELSE LET i == CHOOSE j \in DOMAIN s : \A m \in DOMAIN s : s[j] >= s[m]
         IN  <<s[i]>> \o SortDesc([j \in 1 .. Len(s) - 1 |-> IF j < i THEN s[j] ELSE s[j + 1]])

\* k_probability_threshold(prediction_probas, k) for an integer k: the
\* probability of the first class at position min(k, rows - 1) from the top
k_probability_threshold(probas, k) ==
    LET col == SortDesc([i \in DOMAIN probas.rows |-> probas.rows[i][1]])
        pos == IF k < Len(col) - 1 THEN k ELSE Len(col) - 1
    IN  Tenth(col[pos + 1])

\* the threshold the model's own predictions are cut at
ModelThreshold(m, probas) ==
    IF ~m.k.none THEN k_probability_threshold(probas, m.k.v)
    ELSE IF m.threshold # None THEN m.threshold
    ELSE Half

ArgMax(row) == CHOOSE j \in DOMAIN row : \A m \in DOMAIN row : row[j] > row[m] \/ (row[j] = row[m] /\ j <= m)

\* get_target_prediction_data(data, column_mapping): the target column and
\* the PredictionData resolved from the prediction column(s)
get_target_prediction_data(rows, mapping, m) ==
    LET target == TargetOf(rows)
    IN  IF mapping.prediction = "labels"
        THEN <<target,
               PredictionData(Column(rows, "pred"), NoProbas,
                              SortedSeq(Range(target) \cup Range(Column(rows, "pred"))))>>
        ELSE LET probas == Probas(Column(rows, "proba"))
                 labels == mapping.labels
                 thr == ModelThreshold(m, probas)
                 preds == [i \in DOMAIN rows |->
                             IF Len(labels) = 2
                             THEN (IF ~Less(Tenth(rows[i].proba[1]), thr) THEN labels[1] ELSE labels[2])
                             ELSE labels[ArgMax(rows[i].proba)]]
             IN  <<target, PredictionData(preds, probas, labels)>>

\* calculate_matrix(target, prediction, labels): the confusion matrix
calculate_matrix(target, preds, labels) ==
    [labels |-> labels,
     values |-> [i \in DOMAIN labels |-> [j \in DOMAIN labels |->
                   Cardinality({r \in DOMAIN target : target[r] = labels[i] /\ preds[r] = labels[j]})]]]
NoMatrix == [labels |-> <<>>, values |-> <<>>]

\* the confusion of one label against the rest, read off the matrix
ConfusionOf(matrix, label) ==
    LET ix == CHOOSE i \in DOMAIN matrix.labels : matrix.labels[i] = label
        D == DOMAIN matrix.labels
        cell(i, j) == matrix.values[i][j]
        RECURSIVE Sum(_, _)
        Sum(S, f) == IF S = {} THEN 0
                     ELSE LET x == CHOOSE y \in S : TRUE IN f[x] + Sum(S \ {x}, f)
        rowSum == Sum(D, [j \in D |-> cell(ix, j)])
        colSum == Sum(D, [i \in D |-> cell(i, ix)])
        total == Sum(D \X D, [q \in D \X D |-> cell(q[1], q[2])])
    IN  [tp |-> cell(ix, ix), fn |-> rowSum - cell(ix, ix), fp |-> colSum - cell(ix, ix),
         tn |-> total - rowSum - colSum + cell(ix, ix)]

DatasetClassificationQuality(accuracy, precision, recall, f1, roc_auc, ll, tpr, tnr, fpr, fnr) ==
    [accuracy |-> accuracy, precision |-> precision, recall |-> recall, f1 |-> f1,
     roc_auc |-> roc_auc, log_loss |-> ll, tpr |-> tpr, tnr |-> tnr, fpr |-> fpr, fnr |-> fnr]

\* calculate_metrics(column_mapping, confusion_matrix, target, prediction)
calculate_metrics(matrix, target, prediction) ==
    LET preds == prediction.predictions
        roc == IF prediction.prediction_probas.none THEN None ELSE Opaque
        ll == IF prediction.prediction_probas.none THEN NoLogLoss ELSE OpaqueLogLoss
    IN  IF Len(prediction.labels) = 2
        THEN LET c == ConfusionOf(matrix, PosLabel)
             IN  DatasetClassificationQuality(
                     accuracy_score(target, preds),
                     precision_score(target, preds, PosLabel),
                     recall_score(target, preds, PosLabel),
                     f1_score(target, preds, PosLabel),
                     roc, ll,
                     Div(Num(c.tp, 1), Num(c.tp + c.fn, 1)),
                     Div(Num(c.tn, 1), Num(c.tn + c.fp, 1)),
                     Div(Num(c.fp, 1), Num(c.fp + c.tn, 1)),
                     Div(Num(c.fn, 1), Num(c.fn + c.tp, 1)))
        ELSE DatasetClassificationQuality(
                     accuracy_score(target, preds),
                     MacroAvg("precision", target, preds),
                     MacroAvg("recall", target, preds),
                     MacroAvg("f1", target, preds),
                     roc, ll, None, None, None, None)

\* process_columns(...).utility_columns
process_columns(mapping) ==
    [target |-> mapping.target, prediction |-> IF mapping.prediction = "none" THEN "None" ELSE "prediction"]

\* ------------------------------------------------------------------ state
VARIABLES
    data,            \* InputData: current rows, reference rows or None, column mapping
    metric,          \* the metric's threshold and k (shared by both metrics)
    float_kind,      \* "numpy": sklearn scores are numpy floats; "python": Python floats;
                     \* "unobserved" until the first division by zero shows which
    cm_result,       \* result of the ClassificationConfusionMatrix dependency
    rng,             \* state of numpy's global random generator
    heap,            \* the DatasetClassificationQuality objects, by identity
    quality_result,  \* cached result of ClassificationQualityMetric
    pc,              \* position of the report run
    frame,           \* local variables of ClassificationDummyMetric.calculate, with
                     \* the PredictionData last passed to calculate_metrics
    corrections,     \* the calls of correction_for_threshold made so far
    zero_divs,       \* the divisions by a zero divisor performed so far
    results,         \* what each ClassificationDummyMetric.calculate call produced
    calls            \* number of finished report runs

vars == <<data, metric, float_kind, cm_result, rng, heap, quality_result, pc, frame,
          corrections, zero_divs, results, calls>>

\* labels as ClassificationDummyMetric.calculate resolves them (lines 68-74)
LabelsOf(rows, mapping, m) ==
    IF mapping.prediction = "none" THEN Unique(TargetOf(rows))
    ELSE get_target_prediction_data(rows, mapping, m)[2].labels

\* Input the sklearn calls accept: with two labels the positive label is one
\* of them and the reference target holds no other label.
WellFormed(d, m) ==
    LET labels == LabelsOf(d.current, d.column_mapping, m)
    IN  /\ Len(d.current) >= 1
        /\ Len(labels) = 2 =>
              /\ PosLabel \in Range(labels)
              /\ d.reference.none \/ Range(TargetOf(d.reference.rows)) \subseteq Range(labels)
        /\ d.column_mapping.prediction = "labels" /\ ~d.reference.none =>
              LET rl == LabelsOf(d.reference.rows, d.column_mapping, m)
              IN  Len(rl) = 2 => PosLabel \in Range(rl)

Mappings ==
    {[target |-> t, prediction |-> "none", labels |-> <<>>] : t \in {"target", "None"}}
    \cup {[target |-> t, prediction |-> "labels", labels |-> <<>>] : t \in {"target", "None"}}
    \cup {[target |-> t, prediction |-> "probas", labels |-> l] :
             t \in {"target", "None"}, l \in {<<0, 1>>, <<1, 0>>, <<0, 1, 2>>}}

NoReference == [none |-> TRUE, rows |-> <<>>]
InputsFor(mp) ==
    LET rows == Rows(mp.target = "target", mp.prediction, mp.labels)
        refRows == ReferenceRows(mp.target = "target", mp.prediction, mp.labels)
        references == IF mp.labels = <<1, 0>> THEN {}
                      ELSE {[none |-> FALSE, rows |-> rr] : rr \in SeqsUpTo(refRows, MaxRefRows)}
    IN  {[current |-> c, reference |-> r, column_mapping |-> mp] :
            c \in SeqsUpTo(rows, MaxRows), r \in {NoReference} \cup references}

\* the settings of the metric: every threshold where the correction applies
\* (probabilities and two labels), k with fewer of them
MetricsFor(d) ==
    LET mp == d.column_mapping
    IN  IF mp.prediction = "probas" /\ mp.labels = <<0, 1>>
        THEN {[threshold |-> t, k |-> NoK] : t \in {None} \cup {Tenth(x) : x \in ThresholdOptions}}
             \cup {[threshold |-> t, k |-> SomeK(v)] :
                      t \in IF d.reference.none THEN {None, Tenth(0), Tenth(7)} ELSE {Tenth(7)},
                      v \in KOptions}
        ELSE {[threshold |-> t, k |-> NoK] : t \in {None, Tenth(7)}}

\* the dependency's result: the current matrix, and the reference matrix
\* when it computed one
ConfusionMatrixResult(d, m, withReference) ==
    LET cur == IF d.column_mapping.prediction = "none" THEN NoMatrix
               ELSE LET tp == get_target_prediction_data(d.current, d.column_mapping, m)
                    IN  calculate_matrix(tp[1], tp[2].predictions, tp[2].labels)
        ref == IF d.column_mapping.prediction = "none" \/ d.reference.none \/ ~withReference
               THEN [none |-> TRUE, matrix |-> NoMatrix]
               ELSE LET tp == get_target_prediction_data(d.reference.rows, d.column_mapping, m)
                    IN  [none |-> FALSE,
                         matrix |-> calculate_matrix(tp[1], tp[2].predictions, tp[2].labels)]
    IN  [current_matrix |-> cur, reference_matrix |-> ref]

NoFrame == [target_name |-> "None", prediction_name |-> "None", has_quality_metric |-> FALSE,
            dummy_preds |-> <<>>, target |-> <<>>,
            prediction |-> [none |-> TRUE, data |-> PredictionData(<<>>, NoProbas, <<>>)],
            labels |-> <<>>, current_dummy |-> 0, metrics_matrix |-> [key \in {"none"} |-> [value |-> None]],
            threshold |-> None, by_reference_dummy |-> 0, model_quality |-> 0,
            current_matrix |-> NoMatrix,
            dummy_prediction |-> PredictionData(<<>>, NoProbas, <<>>)]
NoQualityResult == [status |-> "absent", current |-> 0, reference |-> 0, target_name |-> "None"]

Init ==
    /\ \E mp \in Mappings : data \in InputsFor(mp)
    /\ metric \in MetricsFor(data)
    /\ WellFormed(data, metric)
    /\ float_kind = "unobserved"
    /\ \E withReference \in BOOLEAN :
         cm_result = ConfusionMatrixResult(data, metric, withReference)
    /\ rng = 0
    /\ heap = <<>>
    /\ quality_result = NoQualityResult
    /\ pc = "idle"
    /\ frame = NoFrame
    /\ corrections = {}
    /\ zero_divs = {}
    /\ results = <<>>
    /\ calls = 0

\* ------------------------------------------------------ numpy and pandas
\* Series.value_counts(): the distinct values with their counts, most
\* frequent first, ties in order of first appearance
value_counts(col) ==
    LET u == Unique(col)
        before(i, j) == \/ Count(col, u[i]) > Count(col, u[j])
                        \/ Count(col, u[i]) = Count(col, u[j]) /\ i <= j
        RECURSIVE Sort(_)
        Sort(S) == IF S = {} THEN <<>>
                   ELSE LET i == CHOOSE x \in S : \A y \in S : before(x, y)
                        IN  <<[label |-> u[i], count |-> Count(col, u[i])]>> \o Sort(S \ {i})
    IN  Sort(DOMAIN u)

\* faulty variant: the seed is not applied
np_random_seed_ignored(state, seed) == state
\* np.random.seed(seed): the generator's state becomes a function of the seed
np_random_seed(state, seed) == seed
\* one step of the generator; the uniform number drawn is state / 16
Draw(state) == (5 * state + 3) % 16
\* np.random.choice(index, size, p): size draws, each mapped through the
\* cumulative distribution; returns the values and the generator's new state
np_random_choice(ratio, size, state) ==
    LET st[i \in 0 .. size] == IF i = 0 THEN state ELSE Draw(st[i - 1])
        cum[j \in 0 .. Len(ratio)] == IF j = 0 THEN 0 ELSE cum[j - 1] + ratio[j].count
        total == cum[Len(ratio)]
        pick(s) == ratio[CHOOSE j \in DOMAIN ratio :
                            /\ 16 * cum[j] > s * total
                            /\ \A m \in 1 .. j - 1 : ~(16 * cum[m] > s * total)].label
    IN  [values |-> [i \in 1 .. size |-> pick(st[i])], state |-> st[size]]

\* ------------------------------------------- ClassificationQualityMetric
\* a new object on the heap; its identity is its index
Alloc(h, rec) == Append(h, rec)

\* faulty variant: a missing reference matrix leaves the reference out instead of raising
QualityCalculationLenient(d, m, cm, h) ==
    LET cols == process_columns(d.column_mapping)
        failed == [status |-> "ValueError", current |-> 0, reference |-> 0, target_name |-> "None"]
    IN  IF cols.target = "None" \/ cols.prediction = "None"
        THEN [result |-> failed, heap |-> h]
        ELSE LET tp == get_target_prediction_data(d.current, d.column_mapping, m)
                 current == calculate_metrics(cm.current_matrix, tp[1], tp[2])
                 h1 == Alloc(h, current)
             IN  IF ~d.reference.none /\ ~cm.reference_matrix.none
                 THEN LET rtp == get_target_prediction_data(d.reference.rows, d.column_mapping, m)
                          reference == calculate_metrics(cm.reference_matrix.matrix, rtp[1], rtp[2])
                      IN  [result |-> [status |-> "ok", current |-> Len(h1),
                                       reference |-> Len(h1) + 1, target_name |-> cols.target],
                           heap |-> Alloc(h1, reference)]
                 ELSE [result |-> [status |-> "ok", current |-> Len(h1), reference |-> 0,
                                   target_name |-> cols.target],
                       heap |-> h1]
\* ClassificationQualityMetric.calculate: the result, or the error raised,
\* and the heap with the records it built
QualityCalculation(d, m, cm, h) ==
    LET cols == process_columns(d.column_mapping)
        failed == [status |-> "ValueError", current |-> 0, reference |-> 0, target_name |-> "None"]
    IN  IF cols.target = "None" \/ cols.prediction = "None"
        THEN [result |-> failed, heap |-> h]
        ELSE LET tp == get_target_prediction_data(d.current, d.column_mapping, m)
                 current == calculate_metrics(cm.current_matrix, tp[1], tp[2])
                 h1 == Alloc(h, current)
             IN  IF ~d.reference.none
                 THEN IF cm.reference_matrix.none
                      THEN [result |-> failed, heap |-> h1]
                      ELSE LET rtp == get_target_prediction_data(d.reference.rows, d.column_mapping, m)
                               reference == calculate_metrics(cm.reference_matrix.matrix, rtp[1], rtp[2])
                           IN  [result |-> [status |-> "ok", current |-> Len(h1),
                                            reference |-> Len(h1) + 1, target_name |-> cols.target],
                                heap |-> Alloc(h1, reference)]
                 ELSE [result |-> [status |-> "ok", current |-> Len(h1), reference |-> 0,
                                   target_name |-> cols.target],
                       heap |-> h1]

\* the report engine computes the dependency before the dummy metric
QualityCalculate ==
    /\ pc = "idle"
    /\ calls < MaxCalls
    /\ LET out == QualityCalculation(data, metric, cm_result, heap)
       IN  /\ quality_result' = out.result
           /\ heap' = out.heap
    /\ pc' = "dummy"
    /\ UNCHANGED <<data, metric, float_kind, cm_result, rng, frame, corrections, zero_divs,
                   results, calls>>

\* other code of the process uses the global random generator before the
\* dummy metric is calculated
OtherRandomUse ==
    /\ pc = "dummy"
    /\ rng' \in OtherRngStates \ {rng}
    /\ UNCHANGED <<data, metric, float_kind, cm_result, heap, quality_result, pc, frame,
                   corrections, zero_divs, results, calls>>

\* --------------------------------------------- ClassificationDummyMetric
\* a quotient together with whether its divisor was zero
Quot(a, b) == [v |-> Div(a, b), zd |-> IsZero(b)]

\* lines 95-101: the effective decision threshold
ResolveThreshold(m, probas) ==
    IF m.threshold # None \/ ~m.k.none
    THEN LET t1 == IF m.threshold # None THEN m.threshold ELSE None
         IN  IF ~m.k.none THEN k_probability_threshold(probas, m.k.v) ELSE t1
    ELSE Half

\* faulty variant: coeff_precision without the threshold == 1.0 special case
CorrCoeffPrecisionUnguarded(threshold) ==
    LET q == Quot(Half, Sub(One, threshold)) IN [v |-> Min(One, q.v), zd |-> q.zd]
\* lines 193-196: coeff_precision of correction_for_threshold
CorrCoeffPrecision(threshold) ==
    IF threshold = One THEN [v |-> One, zd |-> FALSE]
    ELSE LET q == Quot(Half, Sub(One, threshold)) IN [v |-> Min(One, q.v), zd |-> q.zd]
\* faulty variant: coeff_recall computed with the formula of coeff_precision
CorrCoeffRecallSwapped(threshold) ==
    IF threshold = One THEN [v |-> One, zd |-> FALSE]
    ELSE LET q == Quot(Half, Sub(One, threshold)) IN [v |-> Min(One, q.v), zd |-> q.zd]
\* line 197: coeff_recall of correction_for_threshold
CorrCoeffRecall(threshold) ==
    LET q == Quot(Sub(One, threshold), Half) IN [v |-> Min(One, q.v), zd |-> q.zd]

\* faulty variant: the corrected f1 without its factor 2
CorrectedF1NoFactor(precision, coeff_precision, recall, coeff_recall) ==
    Quot(Mul(Mul(Mul(precision, coeff_precision), recall), coeff_recall),
         Add(Mul(precision, coeff_precision), Mul(recall, coeff_recall)))
\* lines 218-223: the corrected f1
CorrectedF1(precision, coeff_precision, recall, coeff_recall) ==
    Quot(Mul(Mul(Mul(Mul(Two, precision), coeff_precision), recall), coeff_recall),
         Add(Mul(precision, coeff_precision), Mul(recall, coeff_recall)))

\* lines 199-212: a corrected rate, when all four rates are present
CorrectedRate(dummy_results, rate, coeff) ==
    IF /\ dummy_results.tpr # None
       /\ dummy_results.tnr # None
       /\ dummy_results.fpr # None
       /\ dummy_results.fnr # None
    THEN Mul(rate, coeff)
    ELSE None

\* correction_for_threshold(dummy_results, threshold, ...): the new record
correction_for_threshold(dummy_results, threshold) ==
    LET coeff_precision == CorrCoeffPrecision(threshold).v
        coeff_recall == CorrCoeffRecall(threshold).v
    IN  DatasetClassificationQuality(
            dummy_results.accuracy,
            Mul(dummy_results.precision, coeff_precision),
            Mul(dummy_results.recall, coeff_recall),
            CorrectedF1(dummy_results.precision, coeff_precision,
                        dummy_results.recall, coeff_recall).v,
            Half,
            NoLogLoss,
            CorrectedRate(dummy_results, dummy_results.tpr, coeff_recall),
            CorrectedRate(dummy_results, dummy_results.tnr, coeff_precision),
            CorrectedRate(dummy_results, dummy_results.fpr, coeff_recall),
            CorrectedRate(dummy_results, dummy_results.fnr, coeff_precision))

\* faulty variant: the correction overwrites its input record
StoreCorrectedInPlace(h, inId, out) == [heap |-> [h EXCEPT ![inId] = out], id |-> inId]
\* lines 214-230: the corrected record is a new object; the caller rebinds
\* its variable to it
StoreCorrected(h, inId, out) == [heap |-> Alloc(h, out), id |-> Len(h) + 1]

\* the divisions of correction_for_threshold whose divisor is zero
CorrectionZeroDivs(dummy_results, threshold) ==
    LET cp == CorrCoeffPrecision(threshold)
        cr == CorrCoeffRecall(threshold)
    IN  (IF cp.zd THEN {"L196"} ELSE {})
        \cup (IF cr.zd THEN {"L197"} ELSE {})
        \cup (IF CorrectedF1(dummy_results.precision, cp.v, dummy_results.recall, cr.v).zd
              THEN {"L223"} ELSE {})

\* faulty variant: coeff_recall as correction_for_threshold computes it
NegCoeffRecallAsCorrection(threshold) ==
    LET q == Quot(Sub(One, threshold), Half) IN [v |-> Min(One, q.v), zd |-> q.zd]
\* lines 107-110: coeff_recall for the negative label
NegCoeffRecall(threshold) ==
    IF threshold = One THEN [v |-> One, zd |-> FALSE]
    ELSE LET q == Quot(Half, Sub(One, threshold)) IN [v |-> Min(One, q.v), zd |-> q.zd]
\* line 111: coeff_precision for the negative label
NegCoeffPrecision(threshold) ==
    LET q == Quot(Sub(One, threshold), Half) IN [v |-> Min(One, q.v), zd |-> q.zd]

\* lines 94, 159: the binary threshold correction applies
ThresholdApplies(f) ==
    /\ ~f.prediction.none
    /\ ~f.prediction.data.prediction_probas.none
    /\ Len(f.labels) = 2
\* lines 126, 163: predicted probabilities exist
HasProbas(f) ==
    /\ ~f.prediction.none
    /\ ~f.prediction.data.prediction_probas.none

\* line 128: the one-hot matrix of the target against the labels
Binarize(target, labels) ==
    [i \in DOMAIN target |-> [j \in DOMAIN labels |->
        IF ToStr(target[i]) = ToStr(labels[j]) THEN 1 ELSE 0]]

\* faulty variant: the baseline sets roc_auc and forgets log_loss
WithBaselineRocOnly(rec, target, labels, probas) == [rec EXCEPT !.roc_auc = Half]
\* lines 128-131: the uniform baseline written into a dummy record
WithBaseline(rec, target, labels, probas) ==
    [rec EXCEPT !.log_loss = log_loss(Binarize(target, labels), Shape(probas)[2]),
                !.roc_auc = Half]

\* faulty variant: the check of the quality metric (target and prediction needed)
MissingColumnsEither(cols) == cols.target = "None" \/ cols.prediction = "None"
\* line 56: the columns calculate refuses
MissingColumns(cols) == cols.target = "None"

NoQuality == DatasetClassificationQuality(None, None, None, None, None, NoLogLoss,
                                          None, None, None, None)
NoReport == [key \in {"none"} |-> [value |-> None]]
Raised(kind) ==
    [kind |-> kind,
     refs |-> [dummy |-> 0, by_reference_dummy |-> 0, model_quality |-> 0],
     dummy |-> NoQuality, by_reference_dummy |-> NoQuality, model_quality |-> NoQuality,
     metrics_matrix |-> NoReport]
\* the value of an optional object reference
Deref(h, id) == IF id = 0 THEN NoQuality ELSE h[id]
\* ClassificationDummyMetricResults(...), with the records' contents at return
ClassificationDummyMetricResults(h, dummy, by_reference_dummy, model_quality, metrics_matrix) ==
    [kind |-> "ok",
     refs |-> [dummy |-> dummy, by_reference_dummy |-> by_reference_dummy,
               model_quality |-> model_quality],
     dummy |-> Deref(h, dummy), by_reference_dummy |-> Deref(h, by_reference_dummy),
     model_quality |-> Deref(h, model_quality),
     metrics_matrix |-> metrics_matrix]

ZeroDivEntry(sites, rec, threshold) ==
    {[site |-> x, threshold |-> threshold, precision |-> rec.precision, recall |-> rec.recall] :
        x \in sites}
CorrectionEntry(inId, inp, threshold, outId, out) ==
    [input_id |-> inId, input |-> inp, threshold |-> threshold, output_id |-> outId,
     output |-> out]

\* calculate ends by raising: no result, the run is over
Raise(kind) ==
    /\ results' = Append(results, Raised(kind))
    /\ frame' = NoFrame
    /\ pc' = "idle"
    /\ calls' = calls + 1

\* faulty variant: the labels are always the target's unique values
ResolveLabelsFromTarget(f) ==
    IF f.prediction_name # "None"
    THEN LET tp == get_target_prediction_data(data.current, data.column_mapping, metric)
         IN  [target |-> tp[1], prediction |-> [none |-> FALSE, data |-> tp[2]],
              labels |-> Unique(tp[1])]
    ELSE [target |-> TargetOf(data.current), prediction |-> f.prediction,
          labels |-> Unique(TargetOf(data.current))]
\* lines 68-74, 141-146: target, prediction and labels of the current data
ResolveLabels(f) ==
    IF f.prediction_name # "None"
    THEN LET tp == get_target_prediction_data(data.current, data.column_mapping, metric)
         IN  [target |-> tp[1], prediction |-> [none |-> FALSE, data |-> tp[2]],
              labels |-> tp[2].labels]
    ELSE [target |-> TargetOf(data.current), prediction |-> f.prediction,
          labels |-> Unique(TargetOf(data.current))]

\* lines 64-67, 136-139: the dummy predictions sampled from a target column
SampleDummy(col, seed, state) ==
    np_random_choice(value_counts(col), Len(data.current), np_random_seed(state, seed))

\* lines 50-92: resolve the columns (raise without a target column), then
\* dummy by current
DummyCurrent ==
    /\ pc = "dummy"
    /\ LET cols == process_columns(data.column_mapping)
           f == [NoFrame EXCEPT !.target_name = cols.target,
                                !.prediction_name = cols.prediction,
                                !.has_quality_metric = cols.prediction # "None"]
           ch == SampleDummy(TargetOf(data.current), 0, rng)
           dummy_preds == ch.values
           r == ResolveLabels(f)
           current_matrix == calculate_matrix(r.target, dummy_preds, r.labels)
           dummy_prediction == PredictionData(dummy_preds, NoProbas, r.labels)
           current_dummy == calculate_metrics(current_matrix, r.target, dummy_prediction)
       IN  IF MissingColumns(cols)
           THEN /\ Raise("ValueError")
                /\ UNCHANGED <<rng, heap>>
           ELSE /\ rng' = ch.state
                /\ heap' = Alloc(heap, current_dummy)
                /\ frame' = [f EXCEPT !.dummy_preds = dummy_preds,
                                      !.target = r.target,
                                      !.prediction = r.prediction,
                                      !.labels = r.labels,
                                      !.current_dummy = Len(heap) + 1,
                                      !.current_matrix = current_matrix,
                                      !.dummy_prediction = dummy_prediction,
                                      !.metrics_matrix = classification_report(r.target, dummy_preds)]
                /\ pc' = "correct"
                /\ UNCHANGED <<results, calls>>
    /\ UNCHANGED <<data, metric, float_kind, cm_result, quality_result, corrections,
                   zero_divs>>

\* lines 112-125: the two-label metrics matrix and its zero divisions
NegLabelMatrix(f, corrected, threshold) ==
    LET cr == NegCoeffRecall(threshold)
        cp == NegCoeffPrecision(threshold)
        neg_label_precision == Mul(precision_score(f.target, f.dummy_preds, f.labels[2]), cp.v)
        neg_label_recall == Mul(recall_score(f.target, f.dummy_preds, f.labels[2]), cr.v)
        f1 == Quot(Mul(Mul(Two, neg_label_precision), neg_label_recall),
                   Add(neg_label_precision, neg_label_recall))
    IN  [matrix |-> [key \in {ToStr(f.labels[1]), ToStr(f.labels[2])} |->
                        IF key = ToStr(f.labels[2])
                        THEN [precision |-> neg_label_precision, recall |-> neg_label_recall,
                              f1_score |-> f1.v]
                        ELSE [precision |-> corrected.precision, recall |-> corrected.recall,
                              f1_score |-> corrected.f1]],
         zero |-> (IF cr.zd THEN {"L110"} ELSE {}) \cup (IF cp.zd THEN {"L111"} ELSE {})
                  \cup (IF f1.zd THEN {"L123"} ELSE {})]

\* the kinds of float the build may have, once a division by zero shows it
FloatKinds(zeroDivision) ==
    IF float_kind # "unobserved" THEN {float_kind}
    ELSE IF zeroDivision THEN {"numpy", "python"}
    ELSE {"unobserved"}

\* lines 94-125: the binary threshold correction of the current dummy
DummyCorrectCurrent ==
    /\ pc = "correct"
    /\ IF ThresholdApplies(frame)
       THEN LET threshold == ResolveThreshold(metric, frame.prediction.data.prediction_probas)
                inp == heap[frame.current_dummy]
                out == correction_for_threshold(inp, threshold)
                zc == CorrectionZeroDivs(inp, threshold)
                mm == NegLabelMatrix(frame, out, threshold)
                st == StoreCorrected(heap, frame.current_dummy, out)
            IN  \E fk \in FloatKinds("L223" \in zc \/ "L123" \in mm.zero) :
                /\ float_kind' = fk
                /\ IF fk = "python" /\ "L223" \in zc
                   THEN /\ Raise("ZeroDivisionError")
                        /\ zero_divs' = zero_divs \cup ZeroDivEntry(zc, inp, threshold)
                        /\ UNCHANGED <<heap, corrections>>
                   ELSE /\ heap' = st.heap
                        /\ corrections' = corrections \cup
                               {CorrectionEntry(frame.current_dummy, inp, threshold, st.id, out)}
                        /\ zero_divs' = zero_divs \cup ZeroDivEntry(zc \cup mm.zero, inp, threshold)
                        /\ IF fk = "python" /\ "L123" \in mm.zero
                           THEN Raise("ZeroDivisionError")
                           ELSE /\ frame' = [frame EXCEPT !.threshold = threshold,
                                                          !.current_dummy = st.id,
                                                          !.metrics_matrix = mm.matrix]
                                /\ pc' = "logloss"
                                /\ UNCHANGED <<results, calls>>
       ELSE /\ pc' = "logloss"
            /\ UNCHANGED <<float_kind, heap, corrections, zero_divs, frame, results, calls>>
    /\ UNCHANGED <<data, metric, cm_result, rng, quality_result>>

\* lines 126-131: dummy log_loss and roc_auc of the current dummy
DummyLogLossCurrent ==
    /\ pc = "logloss"
    /\ IF HasProbas(frame)
       THEN heap' = [heap EXCEPT ![frame.current_dummy] =
                        WithBaseline(@, frame.target, frame.labels,
                                     frame.prediction.data.prediction_probas)]
       ELSE UNCHANGED heap
    /\ pc' = "reference"
    /\ UNCHANGED <<data, metric, float_kind, cm_result, rng, quality_result, frame,
                   corrections, zero_divs, results, calls>>

\* lines 133-158: dummy by reference
DummyReference ==
    /\ pc = "reference"
    /\ IF ~data.reference.none
       THEN LET ch == SampleDummy(TargetOf(data.reference.rows), 1, rng)
                dummy_preds == ch.values
                r == ResolveLabels(frame)
                current_matrix == calculate_matrix(r.target, dummy_preds, r.labels)
                dummy_prediction == PredictionData(dummy_preds, NoProbas, r.labels)
                by_reference_dummy == calculate_metrics(current_matrix, r.target,
                                                        dummy_prediction)
            IN  /\ rng' = ch.state
                /\ heap' = Alloc(heap, by_reference_dummy)
                /\ frame' = [frame EXCEPT !.dummy_preds = dummy_preds,
                                          !.target = r.target,
                                          !.prediction = r.prediction,
                                          !.labels = r.labels,
                                          !.current_matrix = current_matrix,
                                          !.dummy_prediction = dummy_prediction,
                                          !.by_reference_dummy = Len(heap) + 1]
                /\ pc' = "ref_correct"
       ELSE /\ pc' = "return"
            /\ UNCHANGED <<rng, heap, frame>>
    /\ UNCHANGED <<data, metric, float_kind, cm_result, quality_result, corrections,
                   zero_divs, results, calls>>

\* lines 159-162: the binary threshold correction of the by-reference dummy
DummyCorrectReference ==
    /\ pc = "ref_correct"
    /\ IF ThresholdApplies(frame)
       THEN LET inp == heap[frame.by_reference_dummy]
                out == correction_for_threshold(inp, frame.threshold)
                zc == CorrectionZeroDivs(inp, frame.threshold)
                st == StoreCorrected(heap, frame.by_reference_dummy, out)
            IN  \E fk \in FloatKinds("L223" \in zc) :
                /\ float_kind' = fk
                /\ zero_divs' = zero_divs \cup ZeroDivEntry(zc, inp, frame.threshold)
                /\ IF fk = "python" /\ "L223" \in zc
                   THEN /\ Raise("ZeroDivisionError")
                        /\ UNCHANGED <<heap, corrections>>
                   ELSE /\ heap' = st.heap
                        /\ corrections' = corrections \cup
                               {CorrectionEntry(frame.by_reference_dummy, inp, frame.threshold,
                                                st.id, out)}
                        /\ frame' = [frame EXCEPT !.by_reference_dummy = st.id]
                        /\ pc' = "ref_logloss"
                        /\ UNCHANGED <<results, calls>>
       ELSE /\ pc' = "ref_logloss"
            /\ UNCHANGED <<float_kind, heap, corrections, zero_divs, frame, results, calls>>
    /\ UNCHANGED <<data, metric, cm_result, rng, quality_result>>

\* lines 163-171: dummy log_loss and roc_auc of the by-reference dummy
DummyLogLossReference ==
    /\ pc = "ref_logloss"
    /\ IF HasProbas(frame) /\ frame.by_reference_dummy # 0
       THEN heap' = [heap EXCEPT ![frame.by_reference_dummy] =
                        WithBaseline(@, frame.target, frame.labels,
                                     frame.prediction.data.prediction_probas)]
       ELSE UNCHANGED heap
    /\ pc' = "return"
    /\ UNCHANGED <<data, metric, float_kind, cm_result, rng, quality_result, frame,
                   corrections, zero_divs, results, calls>>

\* faulty variant: the model quality is computed again, into a new record
ModelQualityRecomputed(qr, h) == [id |-> Len(h) + 1, heap |-> Alloc(h, h[qr.current])]
\* line 176: quality_metric.get_result().current, the cached record itself
ModelQuality(qr, h) == [id |-> qr.current, heap |-> h]

\* lines 173-183: model quality and the returned result
DummyReturn ==
    /\ pc = "return"
    /\ IF frame.has_quality_metric /\ quality_result.status # "ok"
       THEN \* get_result() of a dependency whose calculate raised
            /\ Raise("DependencyError")
            /\ UNCHANGED heap
       ELSE LET mq == IF frame.has_quality_metric THEN ModelQuality(quality_result, heap)
                      ELSE [id |-> 0, heap |-> heap]
            IN  /\ heap' = mq.heap
                /\ results' = Append(results,
                       ClassificationDummyMetricResults(mq.heap, frame.current_dummy,
                           frame.by_reference_dummy, mq.id, frame.metrics_matrix))
                /\ frame' = NoFrame
                /\ pc' = "idle"
                /\ calls' = calls + 1
    /\ UNCHANGED <<data, metric, float_kind, cm_result, rng, quality_result, corrections,
                   zero_divs>>

Next ==
    \/ QualityCalculate
    \/ OtherRandomUse
    \/ DummyCurrent
    \/ DummyCorrectCurrent
    \/ DummyLogLossCurrent
    \/ DummyReference
    \/ DummyCorrectReference
    \/ DummyLogLossReference
    \/ DummyReturn

Spec == Init /\ [][Next]_vars

\* ================================================================ claims
\* the predicted probabilities of the current data
CurrentProbas == Probas(Column(data.current, "proba"))
\* the labels of the two-label, with-probabilities case
BinaryProbas == data.column_mapping.prediction = "probas" /\ Len(data.column_mapping.labels) = 2

\* C1 (as stated): whenever the binary threshold correction ran, the threshold
\* it used is the explicit threshold if one is set (also when k is set), else
\* the top-k threshold if k is set, else 0.5.
C1_ExplicitThresholdFirst ==
    \A c \in corrections :
        c.threshold = IF metric.threshold # None THEN metric.threshold
                      ELSE IF ~metric.k.none
                           THEN k_probability_threshold(CurrentProbas, metric.k.v)
                           ELSE Half

\* the threshold t as a number of tenths
Tenths(t) == (t.n * 10) \div t.d
\* min(1, (1 - t) / 0.5) and min(1, 0.5 / (1 - t)) (1 at t = 1), on tenths
FallingCoeff(t) == IF 10 - Tenths(t) < 5 THEN Num(10 - Tenths(t), 5) ELSE One
RisingCoeff(t) ==
    IF Tenths(t) = 10 THEN One
    ELSE IF 5 < 10 - Tenths(t) THEN Num(5, 10 - Tenths(t)) ELSE One

\* C2 (as stated): the corrected record has precision = input precision *
\* min(1, (1-t)/0.5) and recall = input recall * min(1, 0.5/(1-t)) (1 at t = 1).
C2_CoefficientsAsStated ==
    \A c \in corrections :
        /\ c.output.precision = Mul(c.input.precision, FallingCoeff(c.threshold))
        /\ c.output.recall = Mul(c.input.recall, RisingCoeff(c.threshold))

\* C2 (amended): the corrected record has precision = input precision *
\* min(1, 0.5/(1-t)) (1 at t = 1) and recall = input recall * min(1, (1-t)/0.5);
\* at t = 0.7 the precision is scaled by 1.0 and the recall by 0.6.
C2_CoefficientsAmended ==
    \A c \in corrections :
        /\ c.output.precision = Mul(c.input.precision, RisingCoeff(c.threshold))
        /\ c.output.recall = Mul(c.input.recall, FallingCoeff(c.threshold))
        /\ c.threshold = Tenth(7) =>
              /\ c.output.precision = c.input.precision
              /\ c.output.recall = Mul(c.input.recall, Num(6, 10))
\* a correction at t = 0.7 of a record with non-zero precision and recall
C2_Witness ==
    \E c \in corrections :
        /\ c.threshold = Tenth(7)
        /\ Less(Zero, c.input.precision)
        /\ Less(Zero, c.input.recall)

InUnit(a) == IsNum(a) /\ ~Less(a, Zero) /\ ~Less(One, a)
CorrectionPathSites == {"L196", "L197", "L223", "L110", "L111"}

\* C3: at threshold 1.0 and at threshold 0.0, for an input record whose
\* precision and recall are in [0, 1] and not both zero, no division of the
\* correction path (lines 196, 197, 223, 110, 111) has a zero divisor.
C3_NoZeroDivisorAtBoundaries ==
    \A z \in zero_divs :
        (/\ z.threshold \in {Zero, One}
         /\ InUnit(z.precision) /\ InUnit(z.recall)
         /\ ~(IsZero(z.precision) /\ IsZero(z.recall)))
        => z.site \notin CorrectionPathSites
\* a correction at threshold 1.0 of a record whose precision is not zero
C3_Witness ==
    \E c \in corrections :
        /\ c.threshold = One
        /\ InUnit(c.input.precision) /\ InUnit(c.input.recall)
        /\ ~(IsZero(c.input.precision) /\ IsZero(c.input.recall))

CorrectedFields == {"accuracy", "precision", "recall", "f1", "tpr", "tnr", "fpr", "fnr"}

\* C4: at threshold 0.5 both coefficients are 1.0 and, when precision +
\* recall > 0, the corrected record's accuracy, precision, recall, f1, tpr,
\* tnr, fpr and fnr are the input record's.
C4_HalfIsIdentity ==
    \A c \in corrections :
        c.threshold = Half =>
            /\ CorrCoeffPrecision(c.threshold).v = One
            /\ CorrCoeffRecall(c.threshold).v = One
            /\ Less(Zero, Add(c.input.precision, c.input.recall)) =>
                  \A fld \in CorrectedFields : c.output[fld] = c.input[fld]
\* a correction at threshold 0.5 of a record with 0 < f1 < 1
C4_Witness ==
    \E c \in corrections :
        /\ c.threshold = Half
        /\ Less(Zero, c.input.f1)
        /\ Less(c.input.f1, One)

\* log_loss of the one-hot current target against the uniform prediction:
\* one term ln(num_classes) for every row whose target is one of the labels
UniformLogLoss ==
    [k |-> "uniform",
     ones |-> Cardinality({i \in DOMAIN data.current :
                              data.current[i].target \in Range(data.column_mapping.labels)}),
     rows |-> Len(data.current),
     classes |-> Len(data.column_mapping.labels)]

C6_QualityErrors ==
    quality_result.status # "absent" =>
        LET missing == data.column_mapping.target = "None"
                       \/ data.column_mapping.prediction = "none"
            noMatrix == ~data.reference.none /\ cm_result.reference_matrix.none
        IN  /\ quality_result.status \in {"ok", "ValueError"}
            /\ quality_result.status = "ValueError" <=> (missing \/ noMatrix)
            /\ quality_result.status = "ValueError" =>
                  quality_result.current = 0 /\ quality_result.reference = 0
            /\ quality_result.status = "ok" =>
                  /\ quality_result.current # 0
                  /\ quality_result.reference = 0 <=> data.reference.none
\* the metric raised for the missing reference matrix alone
C6_Witness ==
    /\ quality_result.status = "ValueError"
    /\ data.column_mapping.target # "None"
    /\ data.column_mapping.prediction # "none"
    /\ ~data.reference.none
    /\ cm_result.reference_matrix.none

\* C7: without a target column ClassificationDummyMetric.calculate raises
\* ValueError and goes no further, whatever the other inputs; with a target
\* column and no prediction column it never raises.
C7_TargetRequired ==
    /\ data.column_mapping.target = "None" =>
          /\ pc \in {"idle", "dummy"}
          /\ \A i \in DOMAIN results : results[i].kind = "ValueError"
    /\ (data.column_mapping.target # "None" /\ data.column_mapping.prediction = "none") =>
          \A i \in DOMAIN results : results[i].kind = "ok"
\* a call that raised without a target column, with probabilities, reference
\* data, a threshold and k all present
C7_Witness ==
    /\ data.column_mapping.target = "None"
    /\ data.column_mapping.prediction = "probas"
    /\ ~data.reference.none
    /\ metric.threshold # None /\ ~metric.k.none
    /\ results # <<>>

\* C8: in a returned result model_quality is None exactly without a
\* prediction column and else is the very record cached as the quality
\* metric's current; by_reference_dummy is None exactly without reference data.
C8_ModelQuality ==
    /\ \A i \in DOMAIN results :
          results[i].kind = "ok" =>
              /\ results[i].refs.model_quality = 0 <=> data.column_mapping.prediction = "none"
              /\ results[i].refs.by_reference_dummy = 0 <=> data.reference.none
    /\ (pc = "idle" /\ results # <<>> /\ results[Len(results)].kind = "ok"
        /\ data.column_mapping.prediction # "none") =>
          /\ results[Len(results)].refs.model_quality = quality_result.current
          /\ results[Len(results)].model_quality = heap[quality_result.current]
\* a result with a model quality and a by-reference dummy
C8_Witness ==
    /\ pc = "idle"
    /\ results # <<>>
    /\ results[Len(results)].kind = "ok"
    /\ results[Len(results)].refs.model_quality # 0
    /\ results[Len(results)].refs.by_reference_dummy # 0

\* C9: two calls on the same data return the same result, whatever the
\* state of the global random generator before each.
C9_Reproducible ==
    \A i, j \in DOMAIN results :
        /\ results[i].kind = results[j].kind
        /\ results[i].kind = "ok" =>
              /\ results[i].dummy = results[j].dummy
              /\ results[i].by_reference_dummy = results[j].by_reference_dummy
              /\ results[i].model_quality = results[j].model_quality
              /\ results[i].metrics_matrix = results[j].metrics_matrix
\* two returned results over a target and a reference target that hold
\* more than one label each or between them
C9_Witness ==
    /\ Len(results) >= 2
    /\ results[1].kind = "ok"
    /\ ~data.reference.none
    /\ Cardinality(Range(TargetOf(data.current))) >= 2

QualityFields == {"accuracy", "precision", "recall", "f1", "roc_auc", "log_loss",
                  "tpr", "tnr", "fpr", "fnr"}

\* C10 (as stated): no record is changed in place once constructed.
C10_NeverChangedInPlace ==
    [][\A i \in DOMAIN heap : heap'[i] = heap[i]]_vars

\* C10 (amended): correction_for_threshold builds a new record and leaves
\* its input unchanged, and the only in-place change of calculate is the
\* assignment of log_loss and roc_auc of the current dummy (lines 130-131)
\* and of the by-reference dummy (lines 170-171) when probabilities exist.
C10_OnlyBaselineInPlace ==
    [][/\ \A i \in DOMAIN heap :
             \/ heap'[i] = heap[i]
             \/ /\ HasProbas(frame)
                /\ \/ pc = "logloss" /\ i = frame.current_dummy
                   \/ pc = "ref_logloss" /\ i = frame.by_reference_dummy
                /\ \A fld \in QualityFields \ {"log_loss", "roc_auc"} :
                      heap'[i][fld] = heap[i][fld]
       /\ \A c \in corrections' :
             /\ c.output_id # c.input_id
             /\ heap'[c.input_id] = c.input
       /\ \A c \in corrections' \ corrections : c.output_id \notin DOMAIN heap
      ]_vars
\* a record returned by correction_for_threshold was assigned to afterwards
C10_Witness ==
    \E c \in corrections : heap[c.output_id] # c.output

\* the label list the real model's prediction data resolves to on the current
\* data, as the confusion matrix dependency holds it
ModelLabels == cm_result.current_matrix.labels
\* the label list the claim expects the dummy passes to use
ExpectedLabels ==
    IF data.column_mapping.prediction # "none" THEN ModelLabels
    ELSE Unique(TargetOf(data.current))
\* C11: in the current-frequency pass and in the reference-frequency pass the
\* labels given to calculate_matrix and to calculate_metrics are the real
\* model's prediction labels, in their order, when a prediction column exists,
\* and else the unique values of the current target column.
C11_DummyLabels ==
    pc \in {"correct", "logloss", "reference", "ref_correct", "ref_logloss", "return"} =>
        /\ frame.current_matrix.labels = ExpectedLabels
        /\ frame.dummy_prediction.labels = ExpectedLabels
\* the reference pass has just run on a mapping whose label order is not the
\* order of appearance in the target
C11_Witness ==
    /\ pc = "ref_correct"
    /\ data.column_mapping.prediction = "probas"
    /\ frame.dummy_prediction.labels # Unique(TargetOf(data.current))
    /\ frame.current_matrix.labels = ModelLabels

\* the dummy predictions of the current-frequency pass (drawn after seed 0)
CurrentDummyPreds == SampleDummy(TargetOf(data.current), 0, 0).values
\* the metrics matrix entry of a label
MatrixEntry(result, label) == result.metrics_matrix[ToStr(label)]
\* C12: when the binary threshold correction applies, the returned
\* metrics_matrix has the two keys str(labels[0]) and str(labels[1]); the
\* labels[0] entry holds precision, recall and f1 of the corrected dummy
\* record; the labels[1] entry holds that label's precision times the factor
\* correction_for_threshold applies to recall, and its recall times the
\* factor correction_for_threshold applies to precision.
C12_NegLabelSwapped ==
    \A i \in DOMAIN results :
        (results[i].kind = "ok" /\ BinaryProbas) =>
            LET labels == data.column_mapping.labels
                target == TargetOf(data.current)
                res == results[i]
            IN  /\ DOMAIN res.metrics_matrix = {ToStr(labels[1]), ToStr(labels[2])}
                /\ MatrixEntry(res, labels[1]).precision = res.dummy.precision
                /\ MatrixEntry(res, labels[1]).recall = res.dummy.recall
                /\ MatrixEntry(res, labels[1]).f1_score = res.dummy.f1
                /\ \E c \in corrections :
                      /\ c.output_id = res.refs.dummy
                      /\ res.dummy.precision = Mul(c.input.precision, RisingCoeff(c.threshold))
                      /\ res.dummy.recall = Mul(c.input.recall, FallingCoeff(c.threshold))
                      /\ MatrixEntry(res, labels[2]).precision =
                             Mul(precision_score(target, CurrentDummyPreds, labels[2]),
                                 FallingCoeff(c.threshold))
                      /\ MatrixEntry(res, labels[2]).recall =
                             Mul(recall_score(target, CurrentDummyPreds, labels[2]),
                                 RisingCoeff(c.threshold))
\* a result returned for threshold 0.7, where the two factors differ, whose
\* negative-label entry has a non-zero precision and recall
C12_Witness ==
    \E i \in DOMAIN results :
        /\ results[i].kind = "ok"
        /\ BinaryProbas
        /\ \E c \in corrections :
              c.output_id = results[i].refs.dummy /\ c.threshold = Tenth(7)
        /\ Less(Zero, MatrixEntry(results[i], data.column_mapping.labels[2]).precision)
        /\ Less(Zero, MatrixEntry(results[i], data.column_mapping.labels[2]).recall)

====
